---- MODULE Spec2Model ----
(***************************************************************************)
(* Music Jester (src/src/main.rs): an iced application that scans a folder *)
(* for audio files, plays one file at a time through a rodio sink and      *)
(* shows the embedded artwork, title and artist of the playing track.      *)
(*                                                                         *)
(* Strings and file names are sequences of one-character strings, a path   *)
(* is the sequence of its components below "/", and Option<T> is a         *)
(* sequence of length at most one: <<>> is None and <<v>> is Some(v).      *)
(***************************************************************************)
EXTENDS Naturals, Sequences, FiniteSets, TLC

VARIABLES
    selected_folder,  \* MusicJester.selected_folder : String
    audio_files,      \* MusicJester.audio_files : Vec<PathBuf>
    scan_status,      \* MusicJester.scan_status : String
    playing_stream,   \* MusicJester.playing_stream : Option<(OutputStream, OutputStreamHandle)>
    sink,             \* MusicJester.sink : Option<Sink>
    album_art,        \* MusicJester.album_art : Option<Vec<u8>>
    song_title,       \* MusicJester.song_title : Option<String>
    artist,           \* MusicJester.artist : Option<String>
    fs,               \* the file system the scanner walks
    scanned,          \* what find_audio_files(Root) returns on fs
    inflight,         \* results of Command::perform not yet delivered to update
    dialogs,          \* folder dialogs open (FolderButtonPressed's command)
    view,             \* what the last view() offers: file buttons, playback controls
    handled,          \* the message update handled last
    steps,            \* sink, stream and locals after each statement of that call
    ncmds             \* commands update has returned so far

None == <<>>
Some(v) == <<v>>

----------------------------------------------------------------------------
(* Bounds of the model.                                                    *)

\* Longest path, in components, of an entry created below the scanned root.
MaxDepth == 2
\* Most entries (files and directories) created below the scanned root.
MaxEntries == 4
\* Most commands (folder dialogs, scans, metadata results) update returns.
MaxCommands == 5
\* Most symbolic links the system follows while it resolves one path; a path
\* that needs more is an error (ELOOP), as with the limit of 40 of Linux.
MaxSymlinks == 2

----------------------------------------------------------------------------
(* File names.                                                             *)

mp3 == <<"m", "p", "3">>
m4a == <<"m", "4", "a">>
flac == <<"f", "l", "a", "c">>
wav == <<"w", "a", "v">>
ogg == <<"o", "g", "g">>
txt == <<"t", "x", "t">>
MP3 == <<"M", "P", "3">>

WithExt(stem, ext) == stem \o <<".">> \o ext

music == <<"m", "u", "s", "i", "c">>
sub == <<"s", "u", "b">>

\* The folder the scans start from: /music.
Root == <<music>>

----------------------------------------------------------------------------
(* std::path::Path as the scanner uses it.                                 *)

\* Path::file_name: the last component.
file_name(path) == IF path = <<>> THEN None ELSE Some(path[Len(path)])

\* Index of the last "." of a name, 0 when it has none (rsplitn(2, '.')).
LastDot(name) ==
    LET dots == {i \in 1..Len(name) : name[i] = "."}
    IN  IF dots = {} THEN 0 ELSE CHOOSE i \in dots : \A j \in dots : j <= i

\* Path::extension: None without a ".", None when the only "." leads the
\* name, otherwise what follows the last ".".
extension(path) ==
    IF file_name(path) = None THEN None
    ELSE LET name == file_name(path)[1]
             dot == LastDot(name)
         IN  IF dot = 0 \/ dot = 1 THEN None
             ELSE Some(SubSeq(name, dot + 1, Len(name)))

\* A character with the ASCII capitals of the extensions used here lowered.
Lower(c) == IF c = "M" THEN "m" ELSE IF c = "P" THEN "p" ELSE c
to_lowercase(name) == [i \in 1..Len(name) |-> Lower(name[i])]

\* is_supported_audio_file comparing the extension without regard to case.
is_supported_audio_file_ignoring_case(path) ==
    /\ extension(path) # None
    /\ Some(to_lowercase(extension(path)[1]))
           \in {Some(mp3), Some(m4a), Some(flac), Some(wav), Some(ogg)}

is_supported_audio_file(path) ==
    extension(path) \in {Some(mp3), Some(m4a), Some(flac), Some(wav), Some(ogg)}

----------------------------------------------------------------------------
(* The file system: a function from the paths that exist to their nodes.   *)
(* A directory lists its entries' names in the order read_dir yields them, *)
(* and a symbolic link holds the path of the directory it points to.       *)

FileNode == [kind |-> "file", readable |-> TRUE, entries |-> <<>>]
DirNode(readable, entries) == [kind |-> "dir", readable |-> readable, entries |-> entries]
LinkNode(target) == [kind |-> "link", target |-> target]

\* The node a path leads to, every symbolic link on the way and at its end
\* followed: at is the real path reached so far, rest the components left
\* and links the number of links followed. None when a component does not
\* exist, is looked up in what is no directory, or needs one link too many.
RECURSIVE Resolve(_, _, _, _)
Resolve(f, at, rest, links) ==
    IF rest = <<>> THEN Some(at)
    ELSE LET p == Append(at, Head(rest))
         IN  IF p \notin DOMAIN f THEN None
             ELSE IF f[p].kind = "link"
             THEN IF links >= MaxSymlinks THEN None
                  ELSE Resolve(f, <<>>, f[p].target \o Tail(rest), links + 1)
             ELSE IF Tail(rest) # <<>> /\ f[p].kind # "dir" THEN None
             ELSE Resolve(f, p, Tail(rest), links)

\* fs::metadata, which Path::is_dir and Path::is_file ask: the node behind
\* the path, links followed.
metadata_of(f, path) ==
    LET real == Resolve(f, <<>>, path, 0)
    IN  IF real = None THEN None ELSE Some(f[real[1]])

is_dir(f, path) ==
    metadata_of(f, path) # None /\ metadata_of(f, path)[1].kind = "dir"
is_file(f, path) ==
    metadata_of(f, path) # None /\ metadata_of(f, path)[1].kind = "file"

\* fs::read_dir: Err on a directory that cannot be read, else its entries.
read_dir(f, dir) ==
    LET node == metadata_of(f, dir)[1]
    IN  IF node.readable THEN Some(node.entries) ELSE None

RECURSIVE find_audio_files(_, _), ScanEntries(_, _, _), ScanEntriesAborting(_, _, _)

\* ScanEntries giving up on the entries that follow a directory it cannot read.
ScanEntriesAborting(f, dir, entries) ==
    IF entries = <<>> THEN <<>>
    ELSE LET path == Append(dir, Head(entries))
             found == IF is_dir(f, path) THEN find_audio_files(f, path)
                      ELSE IF is_file(f, path) /\ is_supported_audio_file(path)
                           THEN <<path>>
                           ELSE <<>>
         IN  IF is_dir(f, path) /\ read_dir(f, path) = None
             THEN <<>>
             ELSE found \o ScanEntriesAborting(f, dir, Tail(entries))

\* The for loop of find_audio_files over the entries left to visit.
ScanEntries(f, dir, entries) ==
    IF entries = <<>> THEN <<>>
    ELSE LET path == Append(dir, Head(entries))
             found == IF is_dir(f, path) THEN find_audio_files(f, path)
                      ELSE IF is_file(f, path) /\ is_supported_audio_file(path)
                           THEN <<path>>
                           ELSE <<>>
         IN  found \o ScanEntries(f, dir, Tail(entries))

find_audio_files(f, dir) ==
    IF is_dir(f, dir)
    THEN IF read_dir(f, dir) # None
         THEN ScanEntries(f, dir, read_dir(f, dir)[1])
         ELSE <<>>
    ELSE <<>>

----------------------------------------------------------------------------
(* The scanner on its own: files and directories are created below Root    *)
(* and find_audio_files(Root) is run on the tree after every change.       *)

\* Names given to the files created: supported extensions, an unsupported
\* one, a differently-cased one, none at all, and a leading "." only.
FileNames == {
    WithExt(<<"a">>, mp3), WithExt(<<"b">>, txt), WithExt(<<"c">>, flac),
    WithExt(<<"d">>, MP3), <<"e">>, WithExt(<<>>, ogg) }

\* Names given to the directories created; one looks like an audio file.
DirNames == { sub, WithExt(<<"x">>, mp3) }

Range(s) == {s[i] : i \in 1..Len(s)}

\* The paths of f strictly below dir.
Below(f, dir) ==
    {p \in DOMAIN f : Len(p) > Len(dir) /\ SubSeq(p, 1, Len(dir)) = dir}

\* A new entry may be created in parent under name.
CanCreate(parent, name) ==
    /\ Cardinality(DOMAIN fs \ {Root}) < MaxEntries
    /\ fs[parent].kind = "dir"
    /\ Len(parent) - Len(Root) < MaxDepth
    /\ name \notin Range(fs[parent].entries)

\* f with node created as the last entry of parent.
WithEntry(f, parent, name, node) ==
    (Append(parent, name) :> node)
        @@ [f EXCEPT ![parent].entries = Append(@, name)]

ControllerInit ==
    /\ selected_folder = <<>>
    /\ audio_files = <<>>
    /\ scan_status = <<>>
    /\ playing_stream = None
    /\ sink = None
    /\ album_art = None
    /\ song_title = None
    /\ artist = None

controller == <<selected_folder, audio_files, scan_status, playing_stream,
                sink, album_art, song_title, artist>>

env == <<inflight, dialogs, view, handled, steps, ncmds>>

vars == <<controller, fs, scanned, env>>

\* Sink, output stream and the locals of update that own one.
Resources(snk, stream, local_stream, local_sink) ==
    [sink |-> snk, playing_stream |-> stream,
     stream |-> local_stream, new_sink |-> local_sink]

\* What view() builds from the state: a button per audio file, and the
\* Pause, Resume and Stop buttons when there is a sink.
View == [files |-> Range(audio_files), controls |-> sink # None]

EnvInit ==
    /\ inflight = {}
    /\ dialogs = 0
    /\ view = View
    /\ handled = [type |-> "new", no |-> 0, outcome |-> "", path |-> None,
                  after |-> "new"]
    /\ steps = <<Resources(None, None, None, None)>>
    /\ ncmds = 0

InitScan ==
    /\ ControllerInit
    /\ EnvInit
    /\ fs = (Root :> DirNode(TRUE, <<>>))
    /\ scanned = find_audio_files(fs, Root)

CreateFile(parent, name) ==
    /\ CanCreate(parent, name)
    /\ fs' = WithEntry(fs, parent, name, FileNode)
    /\ scanned' = find_audio_files(fs', Root)
    /\ UNCHANGED <<controller, env>>

CreateDir(parent, name, readable) ==
    /\ CanCreate(parent, name)
    /\ fs' = WithEntry(fs, parent, name, DirNode(readable, <<>>))
    /\ scanned' = find_audio_files(fs', Root)
    /\ UNCHANGED <<controller, env>>

NextScan ==
    \/ \E parent \in DOMAIN fs, name \in FileNames : CreateFile(parent, name)
    \/ \E parent \in DOMAIN fs, name \in DirNames, readable \in BOOLEAN :
           CreateDir(parent, name, readable)

SpecScan == InitScan /\ [][NextScan]_vars

----------------------------------------------------------------------------
(* The scanner on trees with symbolic links that point back up the tree.   *)

LinkFileNames == { WithExt(<<"a">>, mp3), WithExt(<<"b">>, txt) }
LinkNames == { <<"l", "o", "o", "p">>, <<"u", "p">> }

\* A symbolic link created in parent that points to parent itself or to a
\* directory above it, down to Root.
CreateLink(parent, name, target) ==
    /\ CanCreate(parent, name)
    /\ Len(target) >= Len(Root)
    /\ Len(target) <= Len(parent)
    /\ target = SubSeq(parent, 1, Len(target))
    /\ fs' = WithEntry(fs, parent, name, LinkNode(target))
    /\ scanned' = find_audio_files(fs', Root)
    /\ UNCHANGED <<controller, env>>

NextLink ==
    \/ \E parent \in DOMAIN fs, name \in LinkFileNames : CreateFile(parent, name)
    \/ \E parent \in DOMAIN fs : CreateDir(parent, sub, TRUE)
    \/ \E parent \in DOMAIN fs, name \in LinkNames, target \in DOMAIN fs :
           CreateLink(parent, name, target)

SpecLink == InitScan /\ [][NextLink]_vars

----------------------------------------------------------------------------
(* Properties of the scanner.                                              *)

AllowList == {mp3, m4a, flac, wav, ogg}

\* name is a non-empty stem, a ".", and an extension of the allow-list,
\* letter for letter.
NamedAsAudio(name) ==
    \E ext \in AllowList :
        /\ Len(name) > Len(ext) + 1
        /\ SubSeq(name, Len(name) - Len(ext), Len(name)) = <<".">> \o ext

\* The directories on the way from Root down to p, p itself excluded.
Ancestors(p) == {SubSeq(p, 1, k) : k \in Len(Root)..(Len(p) - 1)}

\* The directories of f below Root that cannot be read.
Unreadable(f) ==
    {d \in DOMAIN f \ {Root} : f[d].kind = "dir" /\ ~f[d].readable}

\* The files at any depth named as audio that a walk from Root can get to.
AudioFilesOf(f) ==
    {p \in DOMAIN f :
        /\ f[p].kind = "file"
        /\ NamedAsAudio(p[Len(p)])
        /\ \A d \in Ancestors(p) : f[d].readable}

\* C9: the scan returns exactly the files, at any depth, whose extension is
\* one of mp3, m4a, flac, wav, ogg letter for letter (every such file when
\* all directories can be read); other extensions, other casings, names
\* without extension and directories are left out, and no file comes twice.
C9_ScanReturnsExactlyAudioFiles ==
    /\ Range(scanned) = AudioFilesOf(fs)
    /\ Len(scanned) = Cardinality(Range(scanned))

\* A tree read in full: an audio file at the top and one in a directory
\* that is itself named like an audio file, beside a file named d.MP3.
C9_Witness ==
    /\ Unreadable(fs) = {}
    /\ Append(Root, WithExt(<<"a">>, mp3)) \in Range(scanned)
    /\ <<music, WithExt(<<"x">>, mp3), WithExt(<<"c">>, flac)>> \in Range(scanned)
    /\ Append(Root, WithExt(<<"d">>, MP3)) \in DOMAIN fs
    /\ Len(scanned) = 2

\* f with directory d and all below it gone.
Without(f, d) ==
    LET parent == SubSeq(d, 1, Len(d) - 1)
        name == d[Len(d)]
    IN  [p \in DOMAIN f \ ({d} \cup Below(f, d)) |->
            IF p = parent
            THEN [f[p] EXCEPT !.entries = SelectSeq(@, LAMBDA n : n # name)]
            ELSE f[p]]

\* C10: a directory that cannot be read contributes nothing from below it,
\* and the scan returns exactly the list it returns with that directory
\* absent, so siblings and parent are unaffected and the scan goes on.
C10_UnreadableSubtreeIsolated ==
    \A d \in Unreadable(fs) :
        /\ \A p \in Range(scanned) : p \notin Below(fs, d)
        /\ scanned = find_audio_files(Without(fs, d), Root)

\* An unreadable directory holding an audio file, followed by a readable
\* sibling whose audio file is returned.
C10_Witness ==
    /\ Append(Root, sub) \in Unreadable(fs)
    /\ <<music, sub, WithExt(<<"a">>, mp3)>> \in DOMAIN fs
    /\ fs[Root].entries = <<sub, WithExt(<<"x">>, mp3)>>
    /\ scanned = << <<music, WithExt(<<"x">>, mp3), WithExt(<<"a">>, mp3)>> >>

----------------------------------------------------------------------------
(* Strings and paths the controller builds.                                *)

\* "Scanning..."
Scanning == <<"S", "c", "a", "n", "n", "i", "n", "g", ".", ".", ".">>

Digit(d) == <<"0", "1", "2", "3", "4", "5", "6", "7", "8", "9">>[d + 1]

\* {} of format! on a usize: its decimal digits.
RECURSIVE usize_to_string(_)
usize_to_string(n) ==
    IF n < 10 THEN <<Digit(n)>>
    ELSE Append(usize_to_string(n \div 10), Digit(n % 10))

\* format!("Found {} audio files", n)
Found(n) ==
    <<"F", "o", "u", "n", "d", " ">> \o usize_to_string(n)
        \o <<" ", "a", "u", "d", "i", "o", " ", "f", "i", "l", "e", "s">>

\* path.display().to_string() of an absolute path.
RECURSIVE display_to_string(_)
display_to_string(path) ==
    IF path = <<>> THEN <<>>
    ELSE <<"/">> \o Head(path) \o display_to_string(Tail(path))

\* The components of the text s, name being the component read so far.
RECURSIVE Components(_, _)
Components(s, name) ==
    LET done == IF name = <<>> THEN <<>> ELSE <<name>>
    IN  IF s = <<>> THEN done
        ELSE IF Head(s) = "/" THEN done \o Components(Tail(s), <<>>)
        ELSE Components(Tail(s), Append(name, Head(s)))

\* Path::new(&folder_path)
Path_new(s) == Components(s, <<>>)

----------------------------------------------------------------------------
(* The library on disk while the application runs: /music holds a.mp3,     *)
(* b.txt and sub/c.flac, and /other holds d.ogg.                           *)

a_mp3 == WithExt(<<"a">>, mp3)
b_txt == WithExt(<<"b">>, txt)
c_flac == WithExt(<<"c">>, flac)
d_ogg == WithExt(<<"d">>, ogg)
other == <<"o", "t", "h", "e", "r">>

Library ==
    (<<music>> :> DirNode(TRUE, <<a_mp3, b_txt, sub>>))
    @@ (<<music, a_mp3>> :> FileNode)
    @@ (<<music, b_txt>> :> FileNode)
    @@ (<<music, sub>> :> DirNode(TRUE, <<c_flac>>))
    @@ (<<music, sub, c_flac>> :> FileNode)
    @@ (<<other>> :> DirNode(TRUE, <<d_ogg>>))
    @@ (<<other, d_ogg>> :> FileNode)

\* What the folder dialog can return: nothing, or the path of one of the
\* folders /music and /other as text.
DialogResults ==
    {None} \cup {Some(display_to_string(d)) :
                     d \in {p \in DOMAIN Library : is_dir(Library, p) /\ Len(p) = 1}}

\* The tags lofty reads: a.mp3 has none, c.flac has a picture, a title and
\* an artist, d.ogg has a title only; what is no audio container is an Err.
Tag(pictures, title, by) ==
    [pictures |-> pictures, title |-> title, artist |-> by]

read_from_path(file_path) ==
    IF file_path = <<music, a_mp3>>
    THEN Some([primary_tag |-> None])
    ELSE IF file_path = <<music, sub, c_flac>>
    THEN Some([primary_tag |-> Some(Tag(<< <<137, 80>> >>, Some(<<"X">>), Some(<<"Y">>)))])
    ELSE IF file_path = <<other, d_ogg>>
    THEN Some([primary_tag |-> Some(Tag(<<>>, Some(<<"Z">>), None))])
    ELSE None

extract_album_art(file_path) ==
    IF read_from_path(file_path) = None THEN None
    ELSE LET tag == read_from_path(file_path)[1].primary_tag
         IN  IF tag = None THEN None
             ELSE IF tag[1].pictures = <<>> THEN None
             ELSE Some(Head(tag[1].pictures))

extract_metadata(file_path) ==
    IF read_from_path(file_path) # None /\ read_from_path(file_path)[1].primary_tag # None
    THEN LET tag == read_from_path(file_path)[1].primary_tag[1]
         IN  <<tag.title, tag.artist>>
    ELSE <<None, None>>

----------------------------------------------------------------------------
(* rodio: a sink plays one file on one output stream.                      *)

\* Sink::try_new, append(decoder), play(): sink number id playing file_path.
NewSink(id, file_path) ==
    [id |-> id, file |-> file_path, paused |-> FALSE, stopped |-> FALSE]

sink_stop(s) == [s EXCEPT !.stopped = TRUE]

\* sink_pause halting the sink the way stop does.
sink_pause_stopping(s) == [s EXCEPT !.stopped = TRUE]

sink_pause(s) == [s EXCEPT !.paused = TRUE]
sink_play(s) == [s EXCEPT !.paused = FALSE]

\* The steps of the PlayAudio pipeline at which it can end.
Outcomes == {"no_device", "open_failed", "decode_failed", "no_sink", "ok"}

\* PlayAudioSteps opening the new output stream before letting go of the
\* sink and stream of the track before.
PlayAudioStepsAcquiringFirst(old_sink, old_stream, file_path, id, outcome) ==
    LET s0 == Resources(old_sink, old_stream, None, None)
        s1 == IF outcome # "no_device" THEN [s0 EXCEPT !.stream = Some(id)] ELSE s0
        s2 == IF s1.sink # None THEN [s1 EXCEPT !.sink = Some(sink_stop(@[1]))] ELSE s1
        s3 == [s2 EXCEPT !.sink = None]
        s4 == [s3 EXCEPT !.playing_stream = None]
        s5 == IF outcome = "ok"
              THEN [s4 EXCEPT !.new_sink = Some(NewSink(id, file_path))] ELSE s4
        s6 == IF outcome = "ok"
              THEN [s5 EXCEPT !.sink = s5.new_sink, !.new_sink = None] ELSE s5
        s7 == IF outcome = "ok"
              THEN [s6 EXCEPT !.playing_stream = s6.stream, !.stream = None] ELSE s6
        s8 == [s7 EXCEPT !.stream = None, !.new_sink = None]
    IN  <<s0, s1, s2, s3, s4, s5, s6, s7, s8>>

\* PlayAudioSteps storing the output stream in self.playing_stream as soon
\* as it is opened, before the file is opened and decoded.
PlayAudioStepsStoringStreamFirst(old_sink, old_stream, file_path, id, outcome) ==
    LET s0 == Resources(old_sink, old_stream, None, None)
        s1 == IF s0.sink # None THEN [s0 EXCEPT !.sink = Some(sink_stop(@[1]))] ELSE s0
        s2 == [s1 EXCEPT !.sink = None]
        s3 == [s2 EXCEPT !.playing_stream = None]
        s4 == IF outcome # "no_device"
              THEN [s3 EXCEPT !.playing_stream = Some(id)] ELSE s3
        s5 == IF outcome = "ok"
              THEN [s4 EXCEPT !.new_sink = Some(NewSink(id, file_path))] ELSE s4
        s6 == IF outcome = "ok"
              THEN [s5 EXCEPT !.sink = s5.new_sink, !.new_sink = None] ELSE s5
    IN  <<s0, s1, s2, s3, s4, s5, s6>>

\* PlayAudioSteps replacing the sink and stream of the track before only
\* once the new ones exist, so that a failed start leaves them in place.
PlayAudioStepsKeepingOnFailure(old_sink, old_stream, file_path, id, outcome) ==
    LET s0 == Resources(old_sink, old_stream, None, None)
        stop == outcome = "ok" /\ s0.sink # None
        s1 == IF stop THEN [s0 EXCEPT !.sink = Some(sink_stop(@[1]))] ELSE s0
        s2 == IF outcome = "ok" THEN [s1 EXCEPT !.sink = None] ELSE s1
        s3 == IF outcome = "ok" THEN [s2 EXCEPT !.playing_stream = None] ELSE s2
        s4 == IF outcome = "ok" THEN [s3 EXCEPT !.stream = Some(id)] ELSE s3
        s5 == IF outcome = "ok"
              THEN [s4 EXCEPT !.new_sink = Some(NewSink(id, file_path))] ELSE s4
        s6 == IF outcome = "ok"
              THEN [s5 EXCEPT !.sink = s5.new_sink, !.new_sink = None] ELSE s5
        s7 == IF outcome = "ok"
              THEN [s6 EXCEPT !.playing_stream = s6.stream, !.stream = None] ELSE s6
        s8 == [s7 EXCEPT !.stream = None, !.new_sink = None]
    IN  <<s0, s1, s2, s3, s4, s5, s6, s7, s8>>

\* Sink, stream and locals after each statement of update's PlayAudio arm.
PlayAudioSteps(old_sink, old_stream, file_path, id, outcome) ==
    LET s0 == Resources(old_sink, old_stream, None, None)
        \* if let Some(ref sink) = self.sink { sink.stop(); }
        s1 == IF s0.sink # None THEN [s0 EXCEPT !.sink = Some(sink_stop(@[1]))] ELSE s0
        \* self.sink = None;
        s2 == [s1 EXCEPT !.sink = None]
        \* self.playing_stream = None;
        s3 == [s2 EXCEPT !.playing_stream = None]
        \* OutputStream::try_default()
        s4 == IF outcome # "no_device" THEN [s3 EXCEPT !.stream = Some(id)] ELSE s3
        \* fs::File::open, rodio::Decoder::new, Sink::try_new, append, play
        s5 == IF outcome = "ok"
              THEN [s4 EXCEPT !.new_sink = Some(NewSink(id, file_path))] ELSE s4
        \* self.sink = Some(sink);
        s6 == IF outcome = "ok"
              THEN [s5 EXCEPT !.sink = s5.new_sink, !.new_sink = None] ELSE s5
        \* self.playing_stream = Some((stream, stream_handle));
        s7 == IF outcome = "ok"
              THEN [s6 EXCEPT !.playing_stream = s6.stream, !.stream = None] ELSE s6
        \* the locals go out of scope
        s8 == [s7 EXCEPT !.stream = None, !.new_sink = None]
    IN  <<s0, s1, s2, s3, s4, s5, s6, s7, s8>>

\* StopPlaybackSteps without self.playing_stream = None.
StopPlaybackStepsKeepingStream(old_sink, old_stream) ==
    LET s0 == Resources(old_sink, old_stream, None, None)
        s1 == IF s0.sink # None THEN [s0 EXCEPT !.sink = Some(sink_stop(@[1]))] ELSE s0
        s2 == [s1 EXCEPT !.sink = None]
    IN  <<s0, s1, s2>>

\* Sink and stream after each statement of update's StopPlayback arm.
StopPlaybackSteps(old_sink, old_stream) ==
    LET s0 == Resources(old_sink, old_stream, None, None)
        s1 == IF s0.sink # None THEN [s0 EXCEPT !.sink = Some(sink_stop(@[1]))] ELSE s0
        s2 == [s1 EXCEPT !.sink = None]
        s3 == [s2 EXCEPT !.playing_stream = None]
    IN  <<s0, s1, s2, s3>>

----------------------------------------------------------------------------
(* MusicJester::update, one action per message.                            *)

\* A result on its way to update: the message, and the number of the
\* command that produces it.
Result(no, msg) == [no |-> no, msg |-> msg]

\* The message handled: its type, the number of the command it results from
\* or returns (0 for none), how it went, the path PlayAudio or FolderSelected
\* carries, and the type of the message handled before it.
Handled(type, no, outcome, path) ==
    [type |-> type, no |-> no, outcome |-> outcome, path |-> path,
     after |-> handled.type]

library == <<selected_folder, audio_files, scan_status>>
session == <<sink, playing_stream>>
metadata == <<album_art, song_title, artist>>

\* A handler that neither makes nor lets go of a sink or a stream.
NoSteps == steps' = <<Resources(sink', playing_stream', None, None)>>

\* A command may still be issued within the bound of the model.
CanCommand == ncmds < MaxCommands

FolderButtonPressed ==
    /\ CanCommand
    /\ ncmds' = ncmds + 1
    /\ dialogs' = dialogs + 1
    /\ handled' = Handled("FolderButtonPressed", ncmds', "", None)
    /\ UNCHANGED <<controller, fs, scanned, inflight, view>>
    /\ NoSteps

\* FolderSelected ending the playback when a folder is chosen.
FolderSelectedStopping(maybe_path) ==
    /\ dialogs > 0
    /\ dialogs' = dialogs - 1
    /\ IF maybe_path # None
       THEN /\ CanCommand
            /\ selected_folder' = maybe_path[1]
            /\ audio_files' = <<>>
            /\ scan_status' = Scanning
            /\ sink' = None
            /\ playing_stream' = None
            /\ album_art' = None
            /\ song_title' = None
            /\ artist' = None
            /\ ncmds' = ncmds + 1
            /\ inflight' = inflight \cup {Result(ncmds', [type |-> "ScanComplete",
                   files |-> find_audio_files(fs, Path_new(selected_folder'))])}
            /\ handled' = Handled("FolderSelected", ncmds', "Some", maybe_path)
       ELSE /\ handled' = Handled("FolderSelected", 0, "None", None)
            /\ UNCHANGED <<library, session, metadata, inflight, ncmds>>
    /\ UNCHANGED <<fs, scanned, view>>
    /\ NoSteps

\* FolderSelected resetting the library when the dialog was cancelled.
FolderSelectedClearingOnCancel(maybe_path) ==
    /\ dialogs > 0
    /\ dialogs' = dialogs - 1
    /\ IF maybe_path # None
       THEN /\ CanCommand
            /\ selected_folder' = maybe_path[1]
            /\ audio_files' = <<>>
            /\ scan_status' = Scanning
            /\ ncmds' = ncmds + 1
            /\ inflight' = inflight \cup {Result(ncmds', [type |-> "ScanComplete",
                   files |-> find_audio_files(fs, Path_new(selected_folder'))])}
            /\ handled' = Handled("FolderSelected", ncmds', "Some", maybe_path)
       ELSE /\ selected_folder' = <<>>
            /\ audio_files' = <<>>
            /\ scan_status' = <<>>
            /\ handled' = Handled("FolderSelected", 0, "None", None)
            /\ UNCHANGED <<inflight, ncmds>>
    /\ UNCHANGED <<session, metadata, fs, scanned, view>>
    /\ NoSteps

\* FolderSelected leaving the list of the folder before in place until the
\* scan of the new one is done.
FolderSelectedKeepingList(maybe_path) ==
    /\ dialogs > 0
    /\ dialogs' = dialogs - 1
    /\ IF maybe_path # None
       THEN /\ CanCommand
            /\ selected_folder' = maybe_path[1]
            /\ audio_files' = audio_files
            /\ scan_status' = Scanning
            /\ ncmds' = ncmds + 1
            /\ inflight' = inflight \cup {Result(ncmds', [type |-> "ScanComplete",
                   files |-> find_audio_files(fs, Path_new(selected_folder'))])}
            /\ handled' = Handled("FolderSelected", ncmds', "Some", maybe_path)
       ELSE /\ handled' = Handled("FolderSelected", 0, "None", None)
            /\ UNCHANGED <<library, inflight, ncmds>>
    /\ UNCHANGED <<session, metadata, fs, scanned, view>>
    /\ NoSteps

FolderSelected(maybe_path) ==
    /\ dialogs > 0
    /\ dialogs' = dialogs - 1
    /\ IF maybe_path # None
       THEN /\ CanCommand
            /\ selected_folder' = maybe_path[1]
            /\ audio_files' = <<>>
            /\ scan_status' = Scanning
            /\ ncmds' = ncmds + 1
            /\ inflight' = inflight \cup {Result(ncmds', [type |-> "ScanComplete",
                   files |-> find_audio_files(fs, Path_new(selected_folder'))])}
            /\ handled' = Handled("FolderSelected", ncmds', "Some", maybe_path)
       ELSE /\ handled' = Handled("FolderSelected", 0, "None", None)
            /\ UNCHANGED <<library, inflight, ncmds>>
    /\ UNCHANGED <<session, metadata, fs, scanned, view>>
    /\ NoSteps

\* ScanComplete writing the summary before it stores the list it received.
ScanCompleteCountingBefore(m) ==
    /\ m \in inflight
    /\ m.msg.type = "ScanComplete"
    /\ inflight' = inflight \ {m}
    /\ scan_status' = Found(Len(audio_files))
    /\ audio_files' = m.msg.files
    /\ handled' = Handled("ScanComplete", m.no, "", None)
    /\ UNCHANGED <<selected_folder, session, metadata, fs, scanned, dialogs,
                   view, ncmds>>
    /\ NoSteps

ScanComplete(m) ==
    /\ m \in inflight
    /\ m.msg.type = "ScanComplete"
    /\ inflight' = inflight \ {m}
    /\ audio_files' = m.msg.files
    /\ scan_status' = Found(Len(audio_files'))
    /\ handled' = Handled("ScanComplete", m.no, "", None)
    /\ UNCHANGED <<selected_folder, session, metadata, fs, scanned, dialogs,
                   view, ncmds>>
    /\ NoSteps

PlayAudio(file_path, outcome) ==
    /\ file_path \in view.files
    /\ outcome = "ok" => CanCommand
    /\ LET id == ncmds + 1
           trace == PlayAudioSteps(sink, playing_stream, file_path, id, outcome)
       IN  /\ steps' = trace
           /\ sink' = trace[Len(trace)].sink
           /\ playing_stream' = trace[Len(trace)].playing_stream
           /\ IF outcome = "ok"
              THEN /\ ncmds' = id
                   /\ inflight' = inflight \cup {Result(id,
                         [type |-> "DisplayAlbumArtAndMetadata",
                          album_art |-> extract_album_art(file_path),
                          title |-> extract_metadata(file_path)[1],
                          artist |-> extract_metadata(file_path)[2]])}
                   /\ handled' = Handled("PlayAudio", id, outcome, Some(file_path))
              ELSE /\ handled' = Handled("PlayAudio", 0, outcome, Some(file_path))
                   /\ UNCHANGED <<inflight, ncmds>>
    /\ UNCHANGED <<library, metadata, fs, scanned, dialogs, view>>

\* DisplayAlbumArtAndMetadata setting the sink playing as it shows the result.
DisplayAlbumArtAndMetadataResuming(m) ==
    /\ m \in inflight
    /\ m.msg.type = "DisplayAlbumArtAndMetadata"
    /\ inflight' = inflight \ {m}
    /\ IF m.msg.album_art # None /\ m.msg.title # None /\ m.msg.artist # None
       THEN /\ album_art' = m.msg.album_art
            /\ song_title' = m.msg.title
            /\ artist' = m.msg.artist
       ELSE /\ album_art' = None
            /\ song_title' = None
            /\ artist' = None
    /\ sink' = IF sink # None THEN Some(sink_play(sink[1])) ELSE sink
    /\ handled' = Handled("DisplayAlbumArtAndMetadata", m.no, "", None)
    /\ UNCHANGED <<library, playing_stream, fs, scanned, dialogs, view, ncmds>>
    /\ NoSteps

\* DisplayAlbumArtAndMetadata storing each of the three values as it comes.
DisplayAlbumArtAndMetadataFieldwise(m) ==
    /\ m \in inflight
    /\ m.msg.type = "DisplayAlbumArtAndMetadata"
    /\ inflight' = inflight \ {m}
    /\ album_art' = m.msg.album_art
    /\ song_title' = m.msg.title
    /\ artist' = m.msg.artist
    /\ handled' = Handled("DisplayAlbumArtAndMetadata", m.no, "", None)
    /\ UNCHANGED <<library, session, fs, scanned, dialogs, view, ncmds>>
    /\ NoSteps

DisplayAlbumArtAndMetadata(m) ==
    /\ m \in inflight
    /\ m.msg.type = "DisplayAlbumArtAndMetadata"
    /\ inflight' = inflight \ {m}
    /\ IF m.msg.album_art # None /\ m.msg.title # None /\ m.msg.artist # None
       THEN /\ album_art' = m.msg.album_art
            /\ song_title' = m.msg.title
            /\ artist' = m.msg.artist
       ELSE /\ album_art' = None
            /\ song_title' = None
            /\ artist' = None
    /\ handled' = Handled("DisplayAlbumArtAndMetadata", m.no, "", None)
    /\ UNCHANGED <<library, session, fs, scanned, dialogs, view, ncmds>>
    /\ NoSteps

\* PausePlayback that, finding no sink, resets the metadata as Stop does.
PausePlaybackClearing ==
    /\ view.controls
    /\ sink' = IF sink # None THEN Some(sink_pause(sink[1])) ELSE sink
    /\ album_art' = IF sink # None THEN album_art ELSE None
    /\ song_title' = IF sink # None THEN song_title ELSE None
    /\ artist' = IF sink # None THEN artist ELSE None
    /\ handled' = Handled("PausePlayback", 0, "", None)
    /\ UNCHANGED <<library, playing_stream, fs, scanned, inflight,
                   dialogs, view, ncmds>>
    /\ NoSteps

PausePlayback ==
    /\ view.controls
    /\ sink' = IF sink # None THEN Some(sink_pause(sink[1])) ELSE sink
    /\ handled' = Handled("PausePlayback", 0, "", None)
    /\ UNCHANGED <<library, playing_stream, metadata, fs, scanned, inflight,
                   dialogs, view, ncmds>>
    /\ NoSteps

ResumePlayback ==
    /\ view.controls
    /\ sink' = IF sink # None THEN Some(sink_play(sink[1])) ELSE sink
    /\ handled' = Handled("ResumePlayback", 0, "", None)
    /\ UNCHANGED <<library, playing_stream, metadata, fs, scanned, inflight,
                   dialogs, view, ncmds>>
    /\ NoSteps

StopPlayback ==
    /\ view.controls
    /\ LET trace == StopPlaybackSteps(sink, playing_stream)
       IN  /\ steps' = trace
           /\ sink' = trace[Len(trace)].sink
           /\ playing_stream' = trace[Len(trace)].playing_stream
    /\ album_art' = None
    /\ song_title' = None
    /\ artist' = None
    /\ handled' = Handled("StopPlayback", 0, "", None)
    /\ UNCHANGED <<library, fs, scanned, inflight, dialogs, view, ncmds>>

\* iced calls view() again once the messages of an event batch are handled;
\* until then the buttons of the previous view are the ones pressed.
Render ==
    /\ view # View
    /\ view' = [files |-> Range(audio_files), controls |-> sink # None]
    /\ UNCHANGED <<controller, fs, scanned, inflight, dialogs, handled,
                   steps, ncmds>>

Init ==
    /\ ControllerInit
    /\ EnvInit
    /\ fs = Library
    /\ scanned = find_audio_files(fs, Root)

Next ==
    \/ FolderButtonPressed
    \/ \E maybe_path \in DialogResults : FolderSelected(maybe_path)
    \/ \E m \in inflight : ScanComplete(m)
    \/ \E file_path \in view.files, outcome \in Outcomes : PlayAudio(file_path, outcome)
    \/ \E m \in inflight : DisplayAlbumArtAndMetadata(m)
    \/ PausePlayback
    \/ ResumePlayback
    \/ StopPlayback
    \/ Render

Spec == Init /\ [][Next]_vars

\* The runtime runs every command to its end and hands its result to update.
SpecLive ==
    /\ Spec
    /\ WF_vars(\E m \in inflight : ScanComplete(m))
    /\ WF_vars(\E m \in inflight : DisplayAlbumArtAndMetadata(m))

----------------------------------------------------------------------------
(* Properties of the controller.                                           *)

NoMetadata == album_art = None /\ song_title = None /\ artist = None

\* The output streams and the sinks alive in a snapshot of update, by number.
Devices(r) == Range(r.playing_stream) \cup Range(r.stream)
Sinks(r) == {s.id : s \in Range(r.sink) \cup Range(r.new_sink)}

Failed == handled.type = "PlayAudio" /\ handled.outcome # "ok"
Displays == {m \in inflight : m.msg.type = "DisplayAlbumArtAndMetadata"}

\* C1: whenever there is no sink, album_art, song_title and artist are None.
C1_NoSessionNoMetadata == sink = None => NoMetadata

\* C2: after every statement of every handler at most one output stream and
\* at most one sink are alive and a sink is alive only on the stream alive,
\* so the sink and stream of the track before are gone when the new stream
\* is opened; a sink is stopped before it is let go; and after a successful
\* PlayAudio the session is the new sink on the new stream, playing the file
\* of the message.
C2_AtMostOneSession ==
    /\ \A i \in 1..Len(steps) :
           /\ Cardinality(Devices(steps[i])) <= 1
           /\ Cardinality(Sinks(steps[i])) <= 1
           /\ Sinks(steps[i]) \subseteq Devices(steps[i])
    /\ \A i \in 1..(Len(steps) - 1) :
           (steps[i].sink # None /\ steps[i + 1].sink = None)
               => steps[i].sink[1].stopped
    /\ steps[Len(steps)] = Resources(sink, playing_stream, None, None)
    /\ (handled.type = "PlayAudio" /\ handled.outcome = "ok")
           => /\ sink = Some(NewSink(handled.no, handled.path[1]))
              /\ playing_stream = Some(handled.no)
              /\ handled.no \notin Devices(steps[1]) \cup Sinks(steps[1])

\* PlayAudio of one file has just succeeded while another file was playing.
C2_Witness ==
    /\ handled.type = "PlayAudio"
    /\ handled.outcome = "ok"
    /\ steps[1].sink # None
    /\ steps[1].sink[1].file # handled.path[1]
    /\ sink # None

\* C3: while the result asked for by the PlayAudio that made the current
\* sink has not been applied, no metadata is displayed.
C3_MetadataClearedOnNewTrack ==
    (sink # None /\ \E m \in Displays : m.no = sink[1].id) => NoMetadata

\* C4: once the result of the current sink's PlayAudio has been applied,
\* applying the result of an earlier PlayAudio leaves the metadata as it is.
C4_StaleResultIgnored ==
    [][\A m \in Displays :
          (/\ m \notin inflight'
           /\ sink # None
           /\ m.no < sink[1].id
           /\ \A b \in Displays : b.no # sink[1].id)
              => UNCHANGED metadata]_vars

\* C5: once StopPlayback is handled there is no sink, no output stream and
\* no metadata, whatever the state it was handled in.
C5_StopClearsSessionAndMetadata ==
    handled.type = "StopPlayback"
        => /\ sink = None
           /\ playing_stream = None
           /\ NoMetadata
           /\ Devices(steps[Len(steps)]) \cup Sinks(steps[Len(steps)]) = {}

\* StopPlayback has just been handled on a session of c.flac, right after a
\* metadata result was applied.
C5_Witness ==
    /\ handled.type = "StopPlayback"
    /\ handled.after = "DisplayAlbumArtAndMetadata"
    /\ steps[1].sink # None
    /\ steps[1].sink[1].file = <<music, sub, c_flac>>
    /\ steps[1].playing_stream # None

\* C6 as it reads: after a PlayAudio that fails there is no sink, no output
\* stream, and no metadata result on its way.
C6_FailedPlayLeavesNothingPending ==
    Failed => sink = None /\ playing_stream = None /\ Displays = {}

\* C6, amended: a PlayAudio that fails at any step stops and lets go of the
\* sink and stream there were, leaves none, and returns no command, so the
\* results on their way are those that were before it; and a sink comes to
\* be only by a PlayAudio message that succeeds.
C6_FailedPlayLeavesNoSession ==
    [][/\ Failed'
          => /\ sink' = None
             /\ playing_stream' = None
             /\ Devices(steps'[Len(steps')]) \cup Sinks(steps'[Len(steps')]) = {}
             /\ \A i \in 1..(Len(steps') - 1) :
                    (steps'[i].sink # None /\ steps'[i + 1].sink = None)
                        => steps'[i].sink[1].stopped
             /\ inflight' = inflight
             /\ dialogs' = dialogs
             /\ ncmds' = ncmds
       /\ (sink = None /\ sink' # None)
          => (handled'.type = "PlayAudio" /\ handled'.outcome = "ok")]_vars

\* PlayAudio has just failed to decode while a track was playing whose
\* metadata result is still on its way.
C6_Witness ==
    /\ Failed
    /\ handled.outcome = "decode_failed"
    /\ steps[1].sink # None
    /\ Displays # {}
    /\ sink = None

\* C7: PausePlayback and ResumePlayback handled without a sink change no
\* field of the controller and return no command.
C7_PauseResumeWithoutSessionAreNoOps ==
    [][(handled'.type \in {"PausePlayback", "ResumePlayback"} /\ sink = None)
          => /\ UNCHANGED controller
             /\ inflight' = inflight
             /\ dialogs' = dialogs
             /\ ncmds' = ncmds]_vars

\* PausePlayback and then ResumePlayback have been handled without a sink,
\* on a state with a folder scanned and metadata on display.
C7_Witness ==
    /\ handled.type = "ResumePlayback"
    /\ handled.after = "PausePlayback"
    /\ sink = None
    /\ audio_files # <<>>
    /\ ~NoMetadata

\* C8: with a sink, PausePlayback leaves the same sink paused and
\* ResumePlayback leaves the same sink playing; neither changes the sink's
\* number or file, the output stream or the metadata, so PausePlayback
\* followed by ResumePlayback is back to playing on the same session.
C8_PauseThenResumeKeepsSession ==
    [][sink # None
          => /\ handled'.type = "PausePlayback"
                => /\ sink' = Some([sink[1] EXCEPT !.paused = TRUE])
                   /\ UNCHANGED <<playing_stream, metadata>>
             /\ handled'.type = "ResumePlayback"
                => /\ sink' = Some([sink[1] EXCEPT !.paused = FALSE])
                   /\ UNCHANGED <<playing_stream, metadata>>
             /\ (handled'.type = "ResumePlayback" /\ handled'.after = "PausePlayback")
                => /\ ~sink'[1].paused
                   /\ ~sink'[1].stopped
                   /\ playing_stream' = Some(sink'[1].id)]_vars

\* ResumePlayback has been handled right after PausePlayback on a session
\* of c.flac whose metadata is on display.
C8_Witness ==
    /\ handled.type = "ResumePlayback"
    /\ handled.after = "PausePlayback"
    /\ sink # None
    /\ sink = Some(NewSink(sink[1].id, <<music, sub, c_flac>>))
    /\ playing_stream = Some(sink[1].id)
    /\ album_art = Some(<<137, 80>>)
    /\ song_title = Some(<<"X">>)
    /\ artist = Some(<<"Y">>)

----------------------------------------------------------------------------
(* Properties of the library side.                                         *)

Scans == {m \in inflight : m.msg.type = "ScanComplete"}

\* C11: whenever a folder is selected and no scan result is on its way, the
\* file list is what the scan of the selected folder returns, so the result
\* of the scan of a folder selected earlier has not replaced it.
C11_StaleScanIgnored ==
    (selected_folder # <<>> /\ Scans = {})
        => audio_files = find_audio_files(fs, Path_new(selected_folder))

\* C12: the status is empty with an empty list, "Scanning..." with an empty
\* list, or "Found N audio files" with N the length of the list.
C12_StatusMatchesFileList ==
    \/ scan_status = <<>> /\ audio_files = <<>>
    \/ scan_status = Scanning /\ audio_files = <<>>
    \/ scan_status = Found(Len(audio_files))

\* The scan of /music has been applied after the scan of /other: the list
\* went from one file to the two of /music and the status says 2.
C12_Witness ==
    /\ handled.type = "ScanComplete"
    /\ handled.after = "ScanComplete"
    /\ audio_files = << <<music, a_mp3>>, <<music, sub, c_flac>> >>
    /\ scan_status = <<"F", "o", "u", "n", "d", " ", "2", " ", "a", "u", "d", "i",
                       "o", " ", "f", "i", "l", "e", "s">>

----------------------------------------------------------------------------
(* Properties of the metadata.                                             *)

\* C13: when the sink plays c.flac on its own output stream and every
\* metadata result has been delivered, the artwork, title and artist on
\* display are those of c.flac, whatever was played before it and in
\* whatever order the results came.
C13_LastTrackShownWithItsMetadata ==
    (/\ sink # None
     /\ sink[1].file = <<music, sub, c_flac>>
     /\ Displays = {})
        => /\ playing_stream = Some(sink[1].id)
           /\ ~sink[1].stopped
           /\ album_art = extract_album_art(<<music, sub, c_flac>>)
           /\ song_title = extract_metadata(<<music, sub, c_flac>>)[1]
           /\ artist = extract_metadata(<<music, sub, c_flac>>)[2]

\* A result with its artwork, its title and its artist all there.
Complete(msg) == msg.album_art # None /\ msg.title # None /\ msg.artist # None

\* C14: album_art, song_title and artist are all Some or all None in every
\* state; applying a result that lacks any of the three leaves all three
\* None, and applying a complete one leaves the three it carries.
C14_MetadataAllOrNothing ==
    /\ []((album_art = None) = (song_title = None)
            /\ (song_title = None) = (artist = None))
    /\ [][\A m \in Displays :
              m \notin inflight'
                  => IF Complete(m.msg)
                     THEN metadata' = <<m.msg.album_art, m.msg.title, m.msg.artist>>
                     ELSE metadata' = <<None, None, None>>]_vars

\* The result of d.ogg, which has a title and nothing else, has just been
\* applied while d.ogg plays: nothing is on display.
C14_Witness ==
    /\ handled.type = "DisplayAlbumArtAndMetadata"
    /\ sink # None
    /\ sink[1].file = <<other, d_ogg>>
    /\ handled.no = sink[1].id
    /\ extract_metadata(sink[1].file)[1] # None
    /\ NoMetadata

----------------------------------------------------------------------------
(* Properties of the steps of the library side.                            *)

\* C15: the step that handles FolderSelected(Some(path)) stores path as the
\* selected folder, empties the list, sets the status to "Scanning..." and
\* adds to the results on their way one ScanComplete, under a number not
\* used before, carrying the list find_audio_files returns for path; the
\* step that handles a ScanComplete takes that one result off and stores
\* its whole list; and every scan result on its way is handled in the end.
C15_FolderSelectedClearsAndScansOnce ==
    [][/\ (handled' # handled /\ handled'.type = "FolderSelected"
            /\ handled'.outcome = "Some")
          => /\ selected_folder' = handled'.path[1]
             /\ audio_files' = <<>>
             /\ scan_status' = Scanning
             /\ \A m \in inflight : m.no # handled'.no
             /\ inflight' = inflight \cup
                    {Result(handled'.no, [type |-> "ScanComplete",
                        files |-> find_audio_files(fs, Path_new(handled'.path[1]))])}
             /\ Cardinality(inflight') = Cardinality(inflight) + 1
       /\ (handled' # handled /\ handled'.type = "ScanComplete")
          => \E m \in Scans :
                 /\ m.no = handled'.no
                 /\ inflight' = inflight \ {m}
                 /\ audio_files' = m.msg.files
                 /\ \A other_m \in inflight' : other_m.no # m.no]_vars
    /\ \A n \in 1..MaxCommands :
           (\E m \in Scans : m.no = n)
               ~> (handled.type = "ScanComplete" /\ handled.no = n)

\* FolderSelected(Some("/other")) has just been handled on a library that
\* listed the files of /music, which the view built before still shows.
C15_Witness ==
    /\ handled.type = "FolderSelected"
    /\ handled.outcome = "Some"
    /\ selected_folder = display_to_string(<<other>>)
    /\ view.files = {<<music, a_mp3>>, <<music, sub, c_flac>>}
    /\ audio_files = <<>>
    /\ scan_status = Scanning
    /\ Cardinality(Scans) = 1

\* C16: the step that applies a metadata result changes album_art,
\* song_title and artist at most: the sink with its paused and stopped
\* flags, the output stream, the selected folder, the list and the status
\* stay as they are and no command is returned; and the step of a
\* PlayAudio that succeeds leaves the new sink playing on its stream while
\* its metadata result is still on its way.
C16_MetadataResultLeavesPlaybackAlone ==
    [][/\ (handled' # handled /\ handled'.type = "DisplayAlbumArtAndMetadata")
          => /\ UNCHANGED <<sink, playing_stream>>
             /\ UNCHANGED <<selected_folder, audio_files, scan_status>>
             /\ inflight' \subseteq inflight
             /\ UNCHANGED <<ncmds, dialogs>>
       /\ (handled' # handled /\ handled'.type = "PlayAudio"
            /\ handled'.outcome = "ok")
          => /\ sink' # None
             /\ ~sink'[1].paused
             /\ ~sink'[1].stopped
             /\ playing_stream' = Some(sink'[1].id)
             /\ \E m \in inflight' \ inflight :
                    /\ m.msg.type = "DisplayAlbumArtAndMetadata"
                    /\ m.no = sink'[1].id
             /\ UNCHANGED metadata]_vars

\* The result of c.flac has just been applied while the sink of c.flac was
\* paused: its metadata is on display and the sink is still paused.
C16_Witness ==
    /\ handled.type = "DisplayAlbumArtAndMetadata"
    /\ handled.after = "PausePlayback"
    /\ sink # None
    /\ handled.no = sink[1].id
    /\ sink[1].paused
    /\ sink[1].file = <<music, sub, c_flac>>
    /\ song_title = Some(<<"X">>)

----------------------------------------------------------------------------
(* Properties of the session and of what each side leaves alone.           *)

\* C18: between two messages there is a sink exactly when there is an
\* output stream, and the sink is the one made on that stream.
C18_SinkAndStreamTogether ==
    /\ (sink = None) = (playing_stream = None)
    /\ sink # None => playing_stream = Some(sink[1].id)

\* PlayAudio has just failed to make a sink on the output stream it had
\* opened, after stopping a session: neither sink nor stream is left.
C18_Witness ==
    /\ handled.type = "PlayAudio"
    /\ handled.outcome = "no_sink"
    /\ steps[1].sink # None
    /\ \E i \in 1..Len(steps) : steps[i].stream # None
    /\ sink = None
    /\ playing_stream = None

\* C19: a step whose message is FolderSelected or ScanComplete leaves the
\* sink, the output stream and the metadata as they are, and a step whose
\* message is PlayAudio, PausePlayback, ResumePlayback, StopPlayback or
\* DisplayAlbumArtAndMetadata leaves the selected folder, the list and the
\* status as they are.
C19_LibraryAndPlaybackIndependent ==
    [][/\ handled'.type \in {"FolderSelected", "ScanComplete"}
          => UNCHANGED <<sink, playing_stream, album_art, song_title, artist>>
       /\ handled'.type \in {"PlayAudio", "PausePlayback", "ResumePlayback",
                             "StopPlayback", "DisplayAlbumArtAndMetadata"}
          => UNCHANGED <<selected_folder, audio_files, scan_status>>]_vars

\* The scan of /other has just been applied while c.flac of /music, chosen
\* before /other was selected, plays with its metadata on display.
C19_Witness ==
    /\ handled.type = "ScanComplete"
    /\ handled.after = "FolderSelected"
    /\ selected_folder = display_to_string(<<other>>)
    /\ audio_files = << <<other, d_ogg>> >>
    /\ sink # None
    /\ sink = Some(NewSink(sink[1].id, <<music, sub, c_flac>>))
    /\ playing_stream # None
    /\ artist = Some(<<"Y">>)

\* C20: the step that handles FolderSelected(None) takes the dialog's
\* result and changes no field of the controller and returns no command.
C20_CancelledDialogChangesNothing ==
    [][(dialogs = dialogs' + 1 /\ handled'.outcome = "None")
          => /\ handled'.type = "FolderSelected"
             /\ UNCHANGED <<selected_folder, audio_files, scan_status>>
             /\ UNCHANGED <<sink, playing_stream>>
             /\ UNCHANGED <<album_art, song_title, artist>>
             /\ inflight' = inflight
             /\ ncmds' = ncmds]_vars

\* The dialog has just been cancelled on the scanned library of /music
\* while a track plays and its metadata is on display.
C20_Witness ==
    /\ handled.type = "FolderSelected"
    /\ handled.outcome = "None"
    /\ handled.after = "FolderButtonPressed"
    /\ selected_folder = display_to_string(<<music>>)
    /\ Len(audio_files) = 2
    /\ scan_status = Found(2)
    /\ sink # None
    /\ playing_stream # None
    /\ song_title # None

----------------------------------------------------------------------------
(* Properties of the scanner on trees with symbolic links.                 *)

\* The path p, which is not all real, goes through a link of f that points
\* to a directory the link lies in or below.
ThroughCycle(f, p) ==
    \E k \in (Len(Root) + 1)..Len(p) :
        LET q == SubSeq(p, 1, k)
        IN  /\ q \in DOMAIN f
            /\ f[q].kind = "link"
            /\ Len(f[q].target) <= Len(q)
            /\ f[q].target = SubSeq(q, 1, Len(f[q].target))

\* C17: on a tree with links that point back to directories above them the
\* scan returns a list in which no path goes through such a link and no
\* two paths lead to the same file.
C17_CycleSkippedEachFileOnce ==
    /\ \A p \in Range(scanned) : ~ThroughCycle(fs, p)
    /\ \A i, j \in 1..Len(scanned) :
           i # j => Resolve(fs, <<>>, scanned[i], 0) # Resolve(fs, <<>>, scanned[j], 0)

====
